---- MODULE Spec2Model ----
(***************************************************************************)
(* Model of the request traits of src/lib.rs: OpenAiClient, JsonRequest,   *)
(* ByUrlRequest, GetRequest, FormRequest, DownloadRequest and file_to_part.*)
(*                                                                         *)
(* Text is a sequence of one-character strings, so that concatenation and  *)
(* prefixes are those of the program's Strings. An Option is a sequence:   *)
(* <<>> is None and <<x>> is Some(x). An HTTP request is the request the   *)
(* code hands to the HTTP client: verb, URL text, authorization header and *)
(* body. A call is one invocation of a trait method; every `.await` of the *)
(* method is a step of the call.                                           *)
(***************************************************************************)
EXTENDS Integers, Sequences, FiniteSets, TLC

VARIABLES ctor, client, pc, call, sent, net, replies, resp, result, ncalls,
          disk, fsops, store, stream, chunks, bg

vars == <<ctor, client, pc, call, sent, net, replies, resp, result, ncalls,
          disk, fsops, store, stream, chunks, bg>>

-----------------------------------------------------------------------------
(* Bounds *)

\* concurrent calls sharing one client handle
NCalls == 2

\* calls made one after another through one client handle
MaxCalls == 2

\* bytes in the uploaded local file
MaxFileLen == 2

Calls == 1..NCalls

Bytes == {"a", "b"}

BSeq(n) == UNION {[1..k -> Bytes] : k \in 0..n}

-----------------------------------------------------------------------------
(* Text constants *)

\* OpenAiClient::URL, "https://api.openai.com/v1"
URL == <<"h","t","t","p","s",":","/","/","a","p","i",".","o","p","e","n","a","i",".","c","o","m","/","v","1">>

\* a base URL override, "http://local/"
OTHER_URL == <<"h","t","t","p",":","/","/","l","o","c","a","l","/">>

Keys == {"sk-1", "sk-2"}

\* impl GetRequest for ModelsResponse: "/models"
ModelsResponse == [name |-> "ModelsResponse", ENDPOINT |-> <<"/","m","o","d","e","l","s">>, SUFFIX |-> <<>>, verb |-> "GET"]

\* impl ByUrlRequest<Model> for ModelRequest: "/models/", ""
ModelRequest == [name |-> "ModelRequest", ENDPOINT |-> <<"/","m","o","d","e","l","s","/">>, SUFFIX |-> <<>>, verb |-> "GET"]

\* a ByUrlRequest whose builder is overridden to DELETE: "/files/", ""
FileDeleteRequest == [name |-> "FileDeleteRequest", ENDPOINT |-> <<"/","f","i","l","e","s","/">>, SUFFIX |-> <<>>, verb |-> "DELETE"]

\* a ByUrlRequest with a suffix: "/fine-tunes/", "/cancel"
FineTuneCancelRequest == [name |-> "FineTuneCancelRequest", ENDPOINT |-> <<"/","f","t","/">>, SUFFIX |-> <<"/","c","a","n","c","e","l">>, verb |-> "GET"]

\* a JsonRequest: "/chat"
ChatRequest == [name |-> "ChatRequest", ENDPOINT |-> <<"/","c","h","a","t">>, SUFFIX |-> <<>>, verb |-> "POST"]

\* a FormRequest: "/files"
FileUploadRequest == [name |-> "FileUploadRequest", ENDPOINT |-> <<"/","f","i","l","e","s">>, SUFFIX |-> <<>>, verb |-> "POST"]

\* a DownloadRequest: "/files/", "/content"
FileDownloadRequest == [name |-> "FileDownloadRequest", ENDPOINT |-> <<"/","f","i","l","e","s","/">>, SUFFIX |-> <<"/","c">>, verb |-> "GET"]

ByUrlTypes == {ModelRequest, FileDeleteRequest, FineTuneCancelRequest}

\* "gpt-x"
ID_GPTX == <<"g","p","t","-","x">>

\* the identifier the server gives an uploaded file, "f1"
ID_FILE == <<"f","1">>

\* an identifier with a separator inside, "a/b"
ID_SLASH == <<"a","/","b">>

Ids == {ID_GPTX, ID_FILE, ID_SLASH}

NoType == [name |-> "", ENDPOINT |-> <<>>, SUFFIX |-> <<>>, verb |-> ""]

-----------------------------------------------------------------------------
(* Local paths: a path is the sequence of its components *)

P_ROOT == <<>>

P_DOTDOT == <<"data", "..">>

P_NONUNI == <<"data", "\\xFF.json">>

P_MISSING == <<"missing.json">>

P_NOMETA == <<"nometa.json">>

P_SRC == <<"fine-tune.json">>

P_TARGET == <<"fine-tune2.json">>

P_NODIR == <<"nodir", "out.json">>

UploadPaths == {P_ROOT, P_DOTDOT, P_NONUNI, P_MISSING, P_NOMETA, P_SRC}

TargetPaths == {P_TARGET, P_NODIR}

DiskPaths == UploadPaths \cup TargetPaths

\* file names the platform cannot express as UTF-8 text
NonUnicode == {"\\xFF.json"}

\* files whose metadata cannot be read
MetaFails == {P_NOMETA}

\* paths at which a file cannot be created (the parent directory is missing)
Uncreatable == {P_NODIR}

OLD == <<"o", "l", "d">>

-----------------------------------------------------------------------------
(* OpenAiClient, lib.rs 31-66. The connection pool is the HTTP client's.   *)

with_url_and_client(key, url) == [url |-> url, key |-> key]

with_client(key) == with_url_and_client(key, URL)

new(key) == with_client(key)

with_url(key, url) == with_url_and_client(key, url)

-----------------------------------------------------------------------------
(* Request builders of the HTTP client *)

NoBody == [kind |-> "none", json |-> <<>>, part |-> <<>>]

request(verb, url) == [verb |-> verb, url |-> url, auth |-> <<>>, body |-> NoBody]

post(url) == request("POST", url)

get(url) == request("GET", url)

bearer_auth(rb, token) == [rb EXCEPT !.auth = <<"Bearer", token>>]

json(rb, self) == [rb EXCEPT !.body = [kind |-> "json", json |-> <<self>>, part |-> <<>>]]

multipart(rb, form) == [rb EXCEPT !.body = [kind |-> "multipart", json |-> <<>>, part |-> <<form>>]]

\* ByUrlRequest::builder: GET unless the request type overrides the verb
builder(T, c, final_url) == IF T.verb = "GET" THEN get(final_url) ELSE request(T.verb, final_url)

\* the request JsonRequest::run sends
JsonRequest_request(T, self, c) ==
    LET final_url == c.url \o T.ENDPOINT
    IN  json(bearer_auth(post(final_url), c.key), self)

\* faulty variant: the identifier joined to the endpoint with a separator of its own
ByUrlRequest_request_joined(T, id, c) ==
    LET final_url == c.url \o T.ENDPOINT \o <<"/">> \o id \o T.SUFFIX
    IN  bearer_auth(builder(T, c, final_url), c.key)

\* the request ByUrlRequest::run sends
ByUrlRequest_request(T, id, c) ==
    LET final_url == c.url \o T.ENDPOINT \o id \o T.SUFFIX
    IN  bearer_auth(builder(T, c, final_url), c.key)

\* faulty variant: the bearer header left out
GetRequest_request_no_auth(T, c) ==
    LET final_url == c.url \o T.ENDPOINT
    IN  get(final_url)

\* the request GetRequest::get sends
GetRequest_request(T, c) ==
    LET final_url == c.url \o T.ENDPOINT
    IN  bearer_auth(get(final_url), c.key)

\* the request FormRequest::run sends once the form is built
FormRequest_request(T, form, c) ==
    LET final_url == c.url \o T.ENDPOINT
    IN  multipart(bearer_auth(post(final_url), c.key), form)

\* the request DownloadRequest::download sends
DownloadRequest_request(T, id, c) ==
    LET final_url == c.url \o T.ENDPOINT \o id \o T.SUFFIX
    IN  bearer_auth(get(final_url), c.key)

-----------------------------------------------------------------------------
(* HTTP statuses; Response::error_for_status *)

Statuses == {200, 304, 404, 500}

is_success(st) == 200 <= st /\ st <= 299

is_client_error(st) == 400 <= st /\ st <= 499

is_server_error(st) == 500 <= st /\ st <= 599

\* faulty variant: every status that is not a success status is an error
error_for_status_non_success(st) == ~is_success(st)

\* TRUE when error_for_status turns the response into an error
error_for_status(st) == is_client_error(st) \/ is_server_error(st)

-----------------------------------------------------------------------------
(* file_to_part, lib.rs 215-226 *)

\* Path::file_name: None for the root and for a path that ends in ".."
file_name(path) ==
    IF path = <<>> \/ path[Len(path)] = ".." THEN <<>> ELSE <<path[Len(path)]>>

\* OsStr::to_str: None when the name is not valid Unicode
to_str(os) == IF os \in NonUnicode THEN <<>> ELSE <<os>>

IoErr(ops, kind) == [ops |-> ops, ok |-> FALSE, err |-> kind, part |-> <<>>]

\* faulty variant: the file opened before its name is looked at
file_to_part_open_first(path, d) ==
    LET os == file_name(path)
    IN  IF d[path] = <<>> THEN IoErr(<<"open">>, "NotFound")
        ELSE IF os = <<>> THEN IoErr(<<"open">>, "InvalidInput")
        ELSE LET name == to_str(os[1])
             IN  IF name = <<>> THEN IoErr(<<"open">>, "InvalidData")
                 ELSE IF path \in MetaFails THEN IoErr(<<"open", "metadata">>, "Metadata")
                 ELSE [ops |-> <<"open", "metadata">>, ok |-> TRUE, err |-> "",
                       part |-> <<[file_name |-> name[1], length |-> Len(d[path][1]),
                                   body |-> d[path][1]]>>]

\* the file system operations file_to_part performs on path, in order, and
\* what it returns, on the file system d
file_to_part(path, d) ==
    LET os == file_name(path)
    IN  IF os = <<>> THEN IoErr(<<>>, "InvalidInput")
        ELSE LET name == to_str(os[1])
             IN  IF name = <<>> THEN IoErr(<<>>, "InvalidData")
                 ELSE IF d[path] = <<>> THEN IoErr(<<"open">>, "NotFound")
                 ELSE IF path \in MetaFails THEN IoErr(<<"open", "metadata">>, "Metadata")
                 ELSE [ops |-> <<"open", "metadata">>, ok |-> TRUE, err |-> "",
                       part |-> <<[file_name |-> name[1], length |-> Len(d[path][1]),
                                   body |-> d[path][1]]>>]

\* the conversion of a file upload request into a multipart form: its file
\* becomes a part
FileUploadRequest_try_from(path, d) == file_to_part(path, d)

-----------------------------------------------------------------------------
(* State                                                                   *)
(*   ctor, client  the constructor call and the handle it built            *)
(*   pc[c]      where call c stands: idle, awaiting (send().await),        *)
(*              created, streaming, writing (download_to_file), done       *)
(*   call[c]    the method called and its arguments                        *)
(*   sent[c]    the HTTP requests call c has handed to the HTTP client     *)
(*   net        requests on their way to the server                        *)
(*   replies    responses on their way back, each on its request's         *)
(*              connection                                                 *)
(*   resp[c]    the response call c received                               *)
(*   result[c]  what call c returned                                       *)
(*   ncalls     calls that have returned to the caller                     *)
(*   disk       the local files: None, or Some(content)                    *)
(*   fsops      the file system operations of the last form conversion     *)
(*   store      the file the server holds under ID_FILE                    *)
(*   stream     the bytes of the response body not yet yielded             *)
(*   chunks     the chunks the byte stream has yielded                     *)
(*   bg         the write the tokio File has handed to the blocking pool   *)

NoCall == [kind |-> "", T |-> NoType, self |-> <<>>, id |-> <<>>, path |-> <<>>, target |-> <<>>, existed |-> FALSE]

Ok(v) == [ok |-> TRUE, err |-> "", val |-> <<v>>]

Err(kind) == [ok |-> FALSE, err |-> kind, val |-> <<>>]

BgIdle == [st |-> "idle", buf |-> <<>>, path |-> <<>>]

Disks ==
    {[p \in DiskPaths |->
        IF p = P_SRC THEN <<src>>
        ELSE IF p = P_TARGET THEN old
        ELSE IF p \in {P_NOMETA, P_NONUNI} THEN <<(<<"a">>)>>
        ELSE <<>>] : src \in BSeq(MaxFileLen), old \in {<<>>, <<OLD>>}}

InitWith(D) ==
    /\ ctor \in [fn : {"new", "with_url"}, key : Keys, url : {OTHER_URL}]
    /\ client = IF ctor.fn = "new" THEN new(ctor.key) ELSE with_url(ctor.key, ctor.url)
    /\ pc = [c \in Calls |-> "idle"]
    /\ call = [c \in Calls |-> NoCall]
    /\ sent = [c \in Calls |-> <<>>]
    /\ net = {}
    /\ replies = {}
    /\ resp = [c \in Calls |-> <<>>]
    /\ result = [c \in Calls |-> <<>>]
    /\ ncalls = 0
    /\ disk \in D
    /\ fsops = <<>>
    /\ store = <<>>
    /\ stream = <<>>
    /\ chunks = <<>>
    /\ bg = BgIdle

Init == InitWith(Disks)

-----------------------------------------------------------------------------
(* Steps shared by the request methods *)

\* RequestBuilder::send: the request leaves on the call's own connection
send(c, rq) ==
    /\ sent' = [sent EXCEPT ![c] = Append(@, rq)]
    /\ net' = net \cup {[conn |-> c, req |-> rq]}
    /\ pc' = [pc EXCEPT ![c] = "awaiting"]

\* the call returns r
return(c, r) ==
    /\ result' = [result EXCEPT ![c] = <<r>>]
    /\ pc' = [pc EXCEPT ![c] = "done"]

\* faulty variant: a response taken whichever connection it came on
response_of_any(c) == replies

\* the responses `send().await` of call c can resolve to
response_of(c) == {r \in replies : r.conn = c}

\* `.json::<ApiResponse<TRes>>().await?`: the body read and decoded as the
\* envelope, or the error of a body that cannot be read or decoded; the
\* status is not looked at
envelope(r) ==
    IF r.decodes THEN Ok([re |-> r.re, id |-> r.id]) ELSE Err("decode")

IsDownloadUrl(url, id) ==
    url = client.url \o FileDownloadRequest.ENDPOINT \o id \o FileDownloadRequest.SUFFIX

IsUpload(rq) == rq.body.kind = "multipart"

\* the statuses the server may answer rq with: the content of a file it does
\* not hold is never served
ServerStatuses(rq) ==
    IF \E id \in Ids : IsDownloadUrl(rq.url, id) /\ (id # ID_FILE \/ store = <<>>)
    THEN {st \in Statuses : error_for_status(st)}
    ELSE Statuses

ServerReply ==
    \E m \in net, d \in BOOLEAN : \E st \in ServerStatuses(m.req) :
        LET stored == IsUpload(m.req) /\ is_success(st)
            serves == IsDownloadUrl(m.req.url, ID_FILE) /\ store # <<>> /\ st = 200
        IN  /\ net' = net \ {m}
            /\ store' = IF stored THEN <<m.req.body.part[1].body>> ELSE store
            /\ replies' = replies \cup
                   {[conn |-> m.conn, status |-> st, decodes |-> d, re |-> m.req.body,
                     id |-> IF stored THEN <<ID_FILE>> ELSE <<>>,
                     bytes |-> IF serves THEN store[1] ELSE <<>>]}
            /\ UNCHANGED <<ctor, client, pc, call, sent, resp, result, ncalls,
                           disk, fsops, stream, chunks, bg>>

\* faulty variant: a failed send is tried once more before the error is returned
TransportError_retry(c) ==
    /\ pc[c] = "awaiting"
    /\ \E m \in net :
        /\ m.conn = c
        /\ IF Len(sent[c]) < 2
           THEN /\ sent' = [sent EXCEPT ![c] = Append(@, m.req)]
                /\ UNCHANGED <<net, pc, result>>
           ELSE /\ net' = net \ {m}
                /\ return(c, Err("transport"))
                /\ UNCHANGED sent
    /\ UNCHANGED <<ctor, client, call, replies, resp, ncalls,
                   disk, fsops, store, stream, chunks, bg>>

\* `send().await?` fails: the error is returned
TransportError(c) ==
    /\ pc[c] = "awaiting"
    /\ \E m \in net : m.conn = c /\ net' = net \ {m}
    /\ return(c, Err("transport"))
    /\ UNCHANGED <<ctor, client, call, sent, replies, resp, ncalls,
                   disk, fsops, store, stream, chunks, bg>>

\* `send().await?.json().await?` and `Ok(res)` of JsonRequest::run,
\* ByUrlRequest::run, GetRequest::get and FormRequest::run
AwaitJson(c) ==
    /\ pc[c] = "awaiting"
    /\ call[c].kind \in {"json", "byurl", "get", "form"}
    /\ \E r \in response_of(c) :
        /\ replies' = replies \ {r}
        /\ resp' = [resp EXCEPT ![c] = <<r>>]
        /\ return(c, envelope(r))
    /\ UNCHANGED <<ctor, client, call, sent, net, ncalls,
                   disk, fsops, store, stream, chunks, bg>>

Payload(c) == [call |-> c, n |-> ncalls]

JsonRequest_run(c) ==
    /\ pc[c] = "idle"
    /\ LET self == Payload(c)
       IN  /\ call' = [call EXCEPT ![c] = [NoCall EXCEPT !.kind = "json", !.T = ChatRequest, !.self = <<self>>]]
           /\ send(c, JsonRequest_request(ChatRequest, self, client))
    /\ UNCHANGED <<ctor, client, replies, resp, result, ncalls,
                   disk, fsops, store, stream, chunks, bg>>

ByUrlRequest_run(c) ==
    /\ pc[c] = "idle"
    /\ \E T \in ByUrlTypes, id \in Ids :
           /\ call' = [call EXCEPT ![c] = [NoCall EXCEPT !.kind = "byurl", !.T = T, !.id = id]]
           /\ send(c, ByUrlRequest_request(T, id, client))
    /\ UNCHANGED <<ctor, client, replies, resp, result, ncalls,
                   disk, fsops, store, stream, chunks, bg>>

GetRequest_get(c) ==
    /\ pc[c] = "idle"
    /\ call' = [call EXCEPT ![c] = [NoCall EXCEPT !.kind = "get", !.T = ModelsResponse]]
    /\ send(c, GetRequest_request(ModelsResponse, client))
    /\ UNCHANGED <<ctor, client, replies, resp, result, ncalls,
                   disk, fsops, store, stream, chunks, bg>>

\* faulty variant: the request sent before the form is known to have been built
FormRequest_run_send_first(c) ==
    /\ pc[c] = "idle"
    /\ \E path \in UploadPaths :
        LET form == FileUploadRequest_try_from(path, disk)
        IN  /\ call' = [call EXCEPT ![c] = [NoCall EXCEPT !.kind = "form", !.T = FileUploadRequest, !.path = path]]
            /\ fsops' = form.ops
            /\ IF form.ok
               THEN send(c, FormRequest_request(FileUploadRequest, form.part[1], client))
               ELSE send(c, bearer_auth(post(client.url \o FileUploadRequest.ENDPOINT), client.key))
            /\ UNCHANGED result
    /\ UNCHANGED <<ctor, client, replies, resp, ncalls,
                   disk, store, stream, chunks, bg>>

\* FormRequest::run: the form is built (and awaited) as the argument of
\* .multipart(..), and its error returned, before .send() is reached
FormRequest_run(c) ==
    /\ pc[c] = "idle"
    /\ \E path \in UploadPaths :
        LET form == FileUploadRequest_try_from(path, disk)
        IN  /\ call' = [call EXCEPT ![c] = [NoCall EXCEPT !.kind = "form", !.T = FileUploadRequest, !.path = path]]
            /\ fsops' = form.ops
            /\ IF form.ok
               THEN /\ send(c, FormRequest_request(FileUploadRequest, form.part[1], client))
                    /\ UNCHANGED result
               ELSE /\ return(c, Err(form.err))
                    /\ UNCHANGED <<sent, net>>
    /\ UNCHANGED <<ctor, client, replies, resp, ncalls,
                   disk, store, stream, chunks, bg>>

-----------------------------------------------------------------------------
(* DownloadRequest, lib.rs 146-172 *)

\* DownloadRequest::download called by the caller: the request is sent
DownloadRequest_download(c) ==
    /\ pc[c] = "idle"
    /\ \E id \in Ids :
           /\ call' = [call EXCEPT ![c] = [NoCall EXCEPT !.kind = "download", !.T = FileDownloadRequest, !.id = id]]
           /\ send(c, DownloadRequest_request(FileDownloadRequest, id, client))
    /\ UNCHANGED <<ctor, client, replies, resp, result, ncalls,
                   disk, fsops, store, stream, chunks, bg>>

\* `File::create(target_path).await?`, the first statement of
\* download_to_file: the file is created, or truncated, before anything is
\* requested. A call starts when no write of an earlier download is pending.
download_to_file(c) ==
    /\ pc[c] = "idle"
    /\ bg.st # "queued"
    /\ \E id \in Ids, target \in TargetPaths :
        /\ call' = [call EXCEPT ![c] = [NoCall EXCEPT !.kind = "download_to_file", !.T = FileDownloadRequest,
                                          !.id = id, !.target = target, !.existed = (disk[target] # <<>>)]]
        /\ IF target \in Uncreatable
           THEN /\ return(c, Err("create"))
                /\ UNCHANGED disk
           ELSE /\ disk' = [disk EXCEPT ![target] = <<(<<>>)>>]
                /\ pc' = [pc EXCEPT ![c] = "created"]
                /\ UNCHANGED result
    /\ bg' = BgIdle
    /\ chunks' = <<>>
    /\ stream' = <<>>
    /\ UNCHANGED <<ctor, client, sent, net, replies, resp, ncalls, fsops, store>>

\* `self.download(client)` inside download_to_file: the request is sent
download_to_file_download(c) ==
    /\ pc[c] = "created"
    /\ send(c, DownloadRequest_request(call[c].T, call[c].id, client))
    /\ UNCHANGED <<ctor, client, call, replies, resp, result, ncalls,
                   disk, fsops, store, stream, chunks, bg>>

\* `send().await?.error_for_status()?.bytes_stream()` and `Ok(Box::pin(res))`
AwaitDownload(c) ==
    /\ pc[c] = "awaiting"
    /\ call[c].kind \in {"download", "download_to_file"}
    /\ \E r \in response_of(c) :
        /\ replies' = replies \ {r}
        /\ resp' = [resp EXCEPT ![c] = <<r>>]
        /\ IF error_for_status(r.status)
           THEN /\ return(c, Err("status"))
                /\ UNCHANGED stream
           ELSE IF call[c].kind = "download"
           THEN /\ return(c, Ok("stream"))
                /\ UNCHANGED stream
           ELSE /\ stream' = r.bytes
                /\ pc' = [pc EXCEPT ![c] = "streaming"]
                /\ UNCHANGED result
    /\ UNCHANGED <<ctor, client, call, sent, net, ncalls,
                   disk, fsops, store, chunks, bg>>

\* `stream.next().await` of the loop: the stream ends and the method returns
\* Ok(()), or yields the next chunk (any non-empty run of the bytes left), or
\* a read error, which `chunk?` returns
stream_next(c) ==
    /\ pc[c] = "streaming"
    /\ IF stream = <<>>
       THEN /\ return(c, Ok("unit"))
            /\ UNCHANGED <<stream, chunks>>
       ELSE \E n \in 1..Len(stream), read \in BOOLEAN :
               IF ~read
               THEN /\ return(c, Err("chunk"))
                    /\ UNCHANGED <<stream, chunks>>
               ELSE /\ chunks' = Append(chunks, SubSeq(stream, 1, n))
                    /\ stream' = SubSeq(stream, n + 1, Len(stream))
                    /\ pc' = [pc EXCEPT ![c] = "writing"]
                    /\ UNCHANGED result
    /\ UNCHANGED <<ctor, client, call, sent, net, replies, resp, ncalls,
                   disk, fsops, store, bg>>

\* `file.write_all(&chunk).await?` on a tokio::fs::File: the call first waits
\* for the write handed over before and returns its error if it failed;
\* otherwise it copies the chunk into the file's buffer, hands the write to
\* the blocking pool and returns at once. No flush follows.
write_all(c) ==
    /\ pc[c] = "writing"
    /\ bg.st # "queued"
    /\ IF bg.st = "failed"
       THEN /\ return(c, Err("write"))
            /\ bg' = BgIdle
       ELSE /\ bg' = [st |-> "queued", buf |-> chunks[Len(chunks)], path |-> call[c].target]
            /\ pc' = [pc EXCEPT ![c] = "streaming"]
            /\ UNCHANGED result
    /\ UNCHANGED <<ctor, client, call, sent, net, replies, resp, ncalls,
                   disk, fsops, store, stream, chunks>>

\* the blocking pool runs the write handed over: it appends the buffer to the
\* file, or fails having appended less than the buffer. The task runs whether
\* or not the method has returned and dropped the File.
BlockingWrite ==
    /\ bg.st = "queued"
    /\ \E n \in 0..Len(bg.buf) :
        /\ disk' = [disk EXCEPT ![bg.path] = <<@[1] \o SubSeq(bg.buf, 1, n)>>]
        /\ bg' = [st |-> IF n = Len(bg.buf) THEN "written" ELSE "failed", buf |-> <<>>, path |-> bg.path]
    /\ UNCHANGED <<ctor, client, pc, call, sent, net, replies, resp, result, ncalls,
                   fsops, store, stream, chunks>>

\* the caller takes the result; the call keeps nothing
Return(c) ==
    /\ pc[c] = "done"
    /\ ncalls + 1 < MaxCalls
    /\ ncalls' = ncalls + 1
    /\ pc' = [pc EXCEPT ![c] = "idle"]
    /\ call' = [call EXCEPT ![c] = NoCall]
    /\ sent' = [sent EXCEPT ![c] = <<>>]
    /\ resp' = [resp EXCEPT ![c] = <<>>]
    /\ result' = [result EXCEPT ![c] = <<>>]
    /\ fsops' = <<>>
    /\ stream' = <<>>
    /\ chunks' = <<>>
    /\ UNCHANGED <<ctor, client, net, replies, disk, store, bg>>

-----------------------------------------------------------------------------
(* Specifications *)

\* calls made one after another through one client handle
Next ==
    \/ JsonRequest_run(1)
    \/ ByUrlRequest_run(1)
    \/ GetRequest_get(1)
    \/ FormRequest_run(1)
    \/ DownloadRequest_download(1)
    \/ download_to_file(1)
    \/ download_to_file_download(1)
    \/ TransportError(1)
    \/ ServerReply
    \/ AwaitJson(1)
    \/ AwaitDownload(1)
    \/ stream_next(1)
    \/ write_all(1)
    \/ BlockingWrite
    \/ Return(1)

Spec == Init /\ [][Next]_vars

\* JsonRequest::run calls made concurrently through one shared client handle
InitConc == InitWith({d \in Disks : d[P_SRC] = <<(<<>>)>> /\ d[P_TARGET] = <<>>})

NextConc ==
    \/ \E c \in Calls : JsonRequest_run(c)
    \/ \E c \in Calls : TransportError(c)
    \/ ServerReply
    \/ \E c \in Calls : AwaitJson(c)

SpecConc == InitConc /\ [][NextConc]_vars

-----------------------------------------------------------------------------
(* Helpers of the properties *)

IsPrefix(p, q) == Len(p) <= Len(q) /\ SubSeq(q, 1, Len(p)) = p

RECURSIVE Flatten(_)
Flatten(ss) == IF ss = <<>> THEN <<>> ELSE Head(ss) \o Flatten(Tail(ss))

Done(c) == pc[c] = "done"

Kind(c) == call[c].kind

EnvelopeKinds == {"json", "byurl", "get", "form"}

Replied(c) == resp[c] # <<>>

-----------------------------------------------------------------------------
(* C1: a download_to_file call whose request fails to be sent, or whose      *)
(* response has a non-success status, returns an error, and if no file      *)
(* existed at target_path before the call, none exists after it.            *)
C1_NoFileOnFailedDownload ==
    \A c \in Calls :
        (/\ Done(c)
         /\ Kind(c) = "download_to_file"
         /\ \/ result[c][1].err = "transport"
            \/ Replied(c) /\ ~is_success(resp[c][1].status))
        => /\ ~result[c][1].ok
           /\ ~call[c].existed => disk[call[c].target] = <<>>

-----------------------------------------------------------------------------
(* C2: a FormRequest::run call whose request value names a local file that  *)
(* does not exist fails in the conversion to a multipart form and returns   *)
(* that error; the call never sends an HTTP request.                        *)
C2_MissingFileNeverSent ==
    \A c \in Calls :
        (Kind(c) = "form" /\ disk[call[c].path] = <<>>)
        => /\ Done(c)
           /\ ~result[c][1].ok
           /\ result[c][1].err \in {"NotFound", "InvalidInput"}
           /\ sent[c] = <<>>
           /\ \A m \in net : m.conn # c
           /\ ~Replied(c)

C2_Witness ==
    \E c \in Calls :
        /\ Kind(c) = "form"
        /\ call[c].path = P_MISSING
        /\ Done(c)
        /\ result[c][1].err = "NotFound"

-----------------------------------------------------------------------------
(* C3: round trip. When the uploaded file is downloaded with                *)
(* download_to_file by the identifier the server returned, the server       *)
(* streams back the stored bytes, every chunk reads successfully (and no    *)
(* local write has failed), download_to_file returns Ok and the target      *)
(* file's content is that of the original file.                            *)
RoundTripCase(c) ==
    /\ Done(c)
    /\ Kind(c) = "download_to_file"
    /\ call[c].id = ID_FILE
    /\ Replied(c)
    /\ resp[c][1].status = 200
    /\ result[c][1].err \notin {"chunk", "write"}
    /\ bg.st # "failed"

C3_RoundTrip ==
    \A c \in Calls :
        RoundTripCase(c)
        => /\ result[c][1].ok
           /\ Flatten(chunks) = disk[P_SRC][1]
           /\ disk[call[c].target] = disk[P_SRC]

\* what holds of the round trip: the call returns Ok having been handed the
\* original bytes, and the target file holds them once the write handed to
\* the blocking pool has been carried out
C3_RoundTripOnceWritten ==
    \A c \in Calls :
        RoundTripCase(c)
        => /\ result[c][1].ok
           /\ Flatten(chunks) = disk[P_SRC][1]
           /\ bg.st # "queued" => disk[call[c].target] = disk[P_SRC]

-----------------------------------------------------------------------------
(* C4: the URL ByUrlRequest::run and DownloadRequest::download request is   *)
(* base_url, ENDPOINT, id and SUFFIX one after another and nothing else;    *)
(* for ModelRequest and the identifier gpt-x what follows the base URL is   *)
(* /models/gpt-x.                                                           *)
C4_UrlIsConcatenation ==
    \A c \in Calls : \A i \in 1..Len(sent[c]) :
        Kind(c) \in {"byurl", "download", "download_to_file"}
        => LET u == sent[c][i].url
               b == Len(client.url)
               e == b + Len(call[c].T.ENDPOINT)
               d == e + Len(call[c].id)
           IN  /\ Len(u) = d + Len(call[c].T.SUFFIX)
               /\ SubSeq(u, 1, b) = client.url
               /\ SubSeq(u, b + 1, e) = call[c].T.ENDPOINT
               /\ SubSeq(u, e + 1, d) = call[c].id
               /\ SubSeq(u, d + 1, Len(u)) = call[c].T.SUFFIX
               /\ (call[c].T = ModelRequest /\ call[c].id = ID_GPTX)
                  => SubSeq(u, b + 1, Len(u)) = <<"/","m","o","d","e","l","s","/","g","p","t","-","x">>

C4_Witness ==
    \E c \in Calls :
        /\ Kind(c) = "byurl"
        /\ call[c].T = ModelRequest
        /\ call[c].id = ID_GPTX
        /\ Len(sent[c]) = 1

-----------------------------------------------------------------------------
(* C5: JsonRequest::run calls made concurrently through one client handle   *)
(* each send their own payload and return the response to that payload,     *)
(* and the handle is never changed.                                         *)
OwnExchange(c) ==
    /\ Kind(c) = "json" =>
          /\ Len(sent[c]) = 1
          /\ sent[c][1].body.json = call[c].self
    /\ Replied(c) => resp[c][1].re.json = call[c].self
    /\ (Done(c) /\ result[c][1].ok) => result[c][1].val[1].re.json = call[c].self
    /\ \A o \in Calls \ {c} : (Kind(c) = "json" /\ Kind(o) = "json") => call[c].self # call[o].self

C5_OwnResponse ==
    /\ [](\A c \in Calls : OwnExchange(c))
    /\ [][client' = client]_vars

C5_Witness == \A c \in Calls : Done(c) /\ result[c][1].ok

-----------------------------------------------------------------------------
(* C6: DownloadRequest::download returns an error and no byte stream         *)
(* whenever the response status is not a success status, while the four     *)
(* envelope methods return Ok exactly when the request was answered and     *)
(* the body decodes, whatever the status.                                   *)
EnvelopeIgnoresStatus(c) ==
    (Done(c) /\ Kind(c) \in EnvelopeKinds /\ sent[c] # <<>>)
    => (result[c][1].ok <=> (Replied(c) /\ resp[c][1].decodes))

C6_NonSuccessFailsDownload ==
    \A c \in Calls :
        /\ (Done(c) /\ Kind(c) = "download" /\ Replied(c) /\ ~(resp[c][1].status \in 200..299))
           => (~result[c][1].ok /\ result[c][1].val = <<>>)
        /\ EnvelopeIgnoresStatus(c)

\* C6 as amended: the download fails exactly on a client error (4xx) or
\* server error (5xx) status
C6_ErrorStatusFailsDownload ==
    \A c \in Calls :
        /\ (Done(c) /\ Kind(c) = "download" /\ Replied(c))
           => /\ (resp[c][1].status \in 400..599) <=> ~result[c][1].ok
              /\ ~result[c][1].ok => (result[c][1].val = <<>> /\ result[c][1].err = "status")
        /\ EnvelopeIgnoresStatus(c)

C6_Witness ==
    \E c \in Calls :
        /\ Done(c)
        /\ Kind(c) = "download"
        /\ Replied(c)
        /\ resp[c][1].status = 304
        /\ result[c][1].ok

-----------------------------------------------------------------------------
(* C7: when a chunk read of download_to_file fails, the method returns the  *)
(* error and the target file holds exactly the chunks read before it; and   *)
(* from its creation on the file's content is a prefix of the chunks        *)
(* received.                                                                *)
FileIsPrefix(c) ==
    (Kind(c) = "download_to_file" /\ pc[c] \in {"created", "awaiting", "streaming", "writing", "done"}
       /\ call[c].target \notin Uncreatable)
    => /\ disk[call[c].target] # <<>>
       /\ IsPrefix(disk[call[c].target][1], Flatten(chunks))

C7_FailedChunkLeavesEarlierChunks ==
    \A c \in Calls :
        /\ (Done(c) /\ Kind(c) = "download_to_file" /\ result[c][1].err = "chunk")
           => disk[call[c].target] = <<Flatten(chunks)>>
        /\ FileIsPrefix(c)

\* what holds of the file: it is always a prefix of the chunks received
C7_FileIsPrefix == \A c \in Calls : FileIsPrefix(c)

-----------------------------------------------------------------------------
(* C8: a call of JsonRequest::run, ByUrlRequest::run, GetRequest::get,      *)
(* FormRequest::run or DownloadRequest::download sends at most one HTTP     *)
(* request; a failure is returned without a retry or a second request; and  *)
(* what the call returns is decided by its own arguments and its own        *)
(* exchange, however many calls the client has served before.               *)
ListedKinds == EnvelopeKinds \cup {"download"}

Expected(c) ==
    IF sent[c] = <<>> THEN Err(file_to_part(call[c].path, disk).err)
    ELSE IF ~Replied(c) THEN Err("transport")
    ELSE IF Kind(c) = "download"
         THEN (IF resp[c][1].status \in 400..599 THEN Err("status") ELSE Ok("stream"))
         ELSE (IF resp[c][1].decodes THEN Ok([re |-> sent[c][1].body, id |-> resp[c][1].id])
               ELSE Err("decode"))

C8_SingleShot ==
    \A c \in Calls :
        /\ Len(sent[c]) <= 1
        /\ Cardinality({m \in net : m.conn = c}) + Cardinality({r \in replies : r.conn = c}) <= 1
        /\ (Done(c) /\ Kind(c) \in ListedKinds)
           => /\ \A m \in net : m.conn # c
              /\ \A r \in replies : r.conn # c
              /\ result[c][1] = Expected(c)

C8_Witness ==
    \E c \in Calls :
        /\ Done(c)
        /\ Kind(c) \in ListedKinds
        /\ result[c][1].err = "transport"
        /\ Len(sent[c]) = 1
        /\ ncalls = 1

-----------------------------------------------------------------------------
(* C9: every HTTP request of the request methods carries the bearer header  *)
(* with the key the client handle was constructed with and targets a URL    *)
(* that starts with the handle's base URL: the default URL when none was    *)
(* given.                                                                   *)
BaseUrl == IF ctor.fn = "new" THEN URL ELSE ctor.url

Authorized(rq) ==
    /\ rq.auth = <<"Bearer", ctor.key>>
    /\ IsPrefix(BaseUrl, rq.url)

C9_BearerAndBaseUrl ==
    /\ \A c \in Calls : \A i \in 1..Len(sent[c]) : Authorized(sent[c][i])
    /\ \A m \in net : Authorized(m.req)

C9_Witness ==
    \E c \in Calls :
        /\ Kind(c) = "byurl"
        /\ Len(sent[c]) = 1
        /\ sent[c][1].verb = "DELETE"
        /\ ctor.fn = "new"

-----------------------------------------------------------------------------
(* C10: file_to_part resolves the file name, checks that it is text, opens  *)
(* the file and reads its length, in this order, and stops at the first     *)
(* step that fails: InvalidInput for a path with no file name and           *)
(* InvalidData for a name that is not Unicode, both without opening the     *)
(* file; the open error for a missing file, without reading metadata; and   *)
(* otherwise a part with the file's byte length and its file name.          *)
HasFileName(p) == p # <<>> /\ p[Len(p)] # ".."

C10_FileToPartSteps ==
    \A c \in Calls :
        Kind(c) = "form"
        => LET p == call[c].path
           IN  IF ~HasFileName(p)
               THEN Done(c) /\ result[c][1].err = "InvalidInput" /\ fsops = <<>>
               ELSE IF p[Len(p)] \in NonUnicode
               THEN Done(c) /\ result[c][1].err = "InvalidData" /\ fsops = <<>>
               ELSE IF disk[p] = <<>>
               THEN Done(c) /\ result[c][1].err = "NotFound" /\ fsops = <<"open">>
               ELSE IF p \in MetaFails
               THEN Done(c) /\ result[c][1].err = "Metadata" /\ fsops = <<"open", "metadata">>
               ELSE /\ fsops = <<"open", "metadata">>
                    /\ Len(sent[c]) = 1
                    /\ sent[c][1].body.kind = "multipart"
                    /\ sent[c][1].body.part[1].length = Len(disk[p][1])
                    /\ sent[c][1].body.part[1].file_name = p[Len(p)]

C10_Witness ==
    \E c \in Calls :
        /\ Kind(c) = "form"
        /\ Len(sent[c]) = 1
        /\ sent[c][1].body.part[1].length = 2
        /\ sent[c][1].body.part[1].file_name = "fine-tune.json"

====
